---- MODULE Spec2Model ----
(***************************************************************************)
(* Query result cache (CACHE, clear_cache, get_from_cache_or_execute) and  *)
(* parameterised execution (execute_query) of healthcare_mcp_server.py.    *)
(*                                                                         *)
(* Spec        sequential callers: every call runs to completion before    *)
(*             the next one starts.                                        *)
(* SpecThreads concurrent callers: the statements of the functions         *)
(*             interleave, one dictionary operation per step.              *)
(* SpecBind    the parameter binder applied to one parameter mapping.      *)
(* SpecNorm    convert_decimal_values applied to one object, twice.        *)
(* SpecEndpoints  the analytic endpoints, each request run to completion.  *)
(***************************************************************************)
EXTENDS Integers, Sequences, FiniteSets, TLC

(***************************************************************************)
(* Bounds of the model.                                                    *)
(***************************************************************************)
MaxTime == 90       \* the clock stops advancing here (seconds)
TickSeconds == 30   \* granularity of the clock (seconds)
MaxExec == 3        \* execute_query invocations per behaviour
MaxOps == 3         \* calls (get_from_cache_or_execute, clear_cache) per behaviour

\* line 88: ttl_minutes * 60
SecondsPerMinute == 60

(***************************************************************************)
(* Python values.  A value carries its runtime type; a dict is the         *)
(* sequence of its items in insertion order; params is None or a dict.     *)
(***************************************************************************)
PyVal(t, v) == [type |-> t, val |-> v]

Item(name, value) == [name |-> name, value |-> value]

PyNone == [isNone |-> TRUE, items |-> <<>>]

Dict(items) == [isNone |-> FALSE, items |-> items]

\* truth value of params in "if params" (None and {} are falsy)
Truthy(params) == ~params.isNone /\ Len(params.items) > 0

\* the mapping a dict denotes, whatever the insertion order (dict.__eq__)
Mapping(params) ==
    IF params.isNone THEN {}
    ELSE {params.items[i] : i \in 1..Len(params.items)}

\* isinstance(value, cls): bool is a subclass of int, numpy.float64 is a
\* subclass of float and of numpy.floating
IsInstance(value, cls) ==
    \/ value.type = cls
    \/ value.type = "bool" /\ cls = "int"
    \/ value.type = "numpy.float64" /\ cls \in {"float", "numpy.floating"}

\* repr(value), as str(dict) prints each key and value
PyRepr(value) ==
    CASE value.type = "bool" -> (IF value.val THEN "True" ELSE "False")
      [] value.type = "int" -> ToString(value.val)
      [] value.type = "float" -> value.val
      [] value.type = "str" -> "'" \o value.val \o "'"
      [] value.type = "date" -> "datetime.date(" \o value.val \o ")"
      [] OTHER -> "None"

RECURSIVE JoinItems(_)
JoinItems(items) ==
    IF Len(items) = 0 THEN ""
    ELSE LET head == "'" \o Head(items).name \o "': " \o PyRepr(Head(items).value)
         IN IF Len(items) = 1 THEN head
            ELSE head \o ", " \o JoinItems(Tail(items))

\* str(params) for a dict: items in insertion order
PyStrDict(params) == "{" \o JoinItems(params.items) \o "}"

(***************************************************************************)
(* Cache key, lines 81-83.                                                 *)
(***************************************************************************)
\* line 82: f"{query}_{str(params) if params else 'None'}"
CacheInput(query, params) ==
    query \o "_" \o (IF Truthy(params) THEN PyStrDict(params) ELSE "None")

\* line 83: hashlib.md5(...).hexdigest(); the digest is taken to be
\* collision free, so it is modelled as a tagged copy of its input
Md5Hexdigest(s) == "md5:" \o s

cache_key_of(query, params) == Md5Hexdigest(CacheInput(query, params))

(***************************************************************************)
(* Parameter binder, lines 111-129.                                        *)
(***************************************************************************)
\* lines 115-126
ParamTypeBoolAsInt(value) ==
    IF IsInstance(value, "int") THEN "INT64"
    ELSE IF IsInstance(value, "bool") THEN "BOOL"
    ELSE IF IsInstance(value, "float") THEN "FLOAT64"
    ELSE "STRING"

ParamType(value) ==
    IF IsInstance(value, "bool") THEN "BOOL"
    ELSE IF IsInstance(value, "int") THEN "INT64"
    ELSE IF IsInstance(value, "float") THEN "FLOAT64"
    ELSE IF IsInstance(value, "str") THEN "STRING"
    ELSE "STRING"

\* line 128: bigquery.ScalarQueryParameter(key, param_type, value)
ScalarQueryParameter(name, type_, value) ==
    [name |-> name, type_ |-> type_, value |-> value]

\* lines 111-129: job_config.query_parameters
QueryParameters(params) ==
    IF Truthy(params)
    THEN [i \in 1..Len(params.items) |->
            ScalarQueryParameter(params.items[i].name,
                                 ParamType(params.items[i].value),
                                 params.items[i].value)]
    ELSE <<>>

(***************************************************************************)
(* convert_decimal_values, lines 157-168.  A dict is the sequence of its   *)
(* items, a list the sequence of its elements; a float is written as repr  *)
(* prints it.                                                              *)
(***************************************************************************)
PyNoneValue == PyVal("NoneType", "None")

\* repr(float(d)) for the Decimal written text
FloatRepr(text) ==
    CASE text = "NaN" -> "nan"
      [] text = "2" -> "2.0"
      [] OTHER -> text

\* line 164: float(obj)
DecimalToNumpyFloat(obj) == PyVal("numpy.float64", FloatRepr(obj.val))

DecimalToFloat(obj) == PyVal("float", FloatRepr(obj.val))

\* pd.isna(obj) for a scalar
PdIsna(obj) ==
    \/ obj.type = "NoneType"
    \/ obj.type \in {"float", "numpy.float64"} /\ obj.val = "nan"
    \/ obj.type = "Decimal" /\ obj.val = "NaN"

\* line 165: pd.isna(obj) and isinstance(obj, (pd.Series, np.floating))
IsNullSentinelAnyNa(obj) == PdIsna(obj)

IsNullSentinel(obj) ==
    /\ PdIsna(obj)
    /\ (IsInstance(obj, "pandas.Series") \/ IsInstance(obj, "numpy.floating"))

RECURSIVE convert_decimal_values(_)
convert_decimal_values(obj) ==
    IF IsInstance(obj, "dict")
    THEN PyVal("dict", [i \in 1..Len(obj.val) |->
                          Item(obj.val[i].name,
                               convert_decimal_values(obj.val[i].value))])
    ELSE IF IsInstance(obj, "list")
    THEN PyVal("list", [i \in 1..Len(obj.val) |->
                          convert_decimal_values(obj.val[i])])
    ELSE IF IsInstance(obj, "Decimal")
    THEN DecimalToFloat(obj)
    ELSE IF IsNullSentinel(obj)
    THEN PyNoneValue
    ELSE obj

(***************************************************************************)
(* execute_query, lines 98-146.  The warehouse either answers job number   *)
(* "job" with a result table or rejects it with a message.                 *)
(***************************************************************************)
BackendMessage == "400 backend rejected the query"

\* a column of a DataFrame: its dtype and its cells, top to bottom
Column(name, dtype, cells) == [name |-> name, dtype |-> dtype, cells |-> cells]

\* lines 131-132: job.to_dataframe(), the rows the warehouse holds for each
\* query.  A NUMERIC column arrives with dtype object, Decimal cells and
\* None for NULL.
ToDataframe(query) ==
    IF query = "SELECT 1"
    THEN <<Column("total_paid", "object",
                  <<PyVal("Decimal", "1.5"), PyNoneValue>>)>>
    ELSE <<Column("total_paid", "object",
                  <<PyNoneValue, PyVal("Decimal", "2")>>)>>

\* line 139: astype(float) of a cell; a missing value becomes NaN
AsTypeFloat(cell) ==
    IF PdIsna(cell) THEN PyVal("numpy.float64", "nan")
    ELSE PyVal("numpy.float64", FloatRepr(cell.val))

\* lines 136-142, for one column
ConvertDecimalColumn(col) ==
    IF col.dtype = "object"
    THEN IF Len(col.cells) > 0 /\ IsInstance(col.cells[1], "Decimal")
         THEN [col EXCEPT !.dtype = "float64",
                          !.cells = [i \in 1..Len(col.cells) |->
                                        AsTypeFloat(col.cells[i])]]
         ELSE IF \E i \in 1..Len(col.cells) :
                    ~PdIsna(col.cells[i]) /\ IsInstance(col.cells[i], "Decimal")
         THEN [col EXCEPT !.cells = [i \in 1..Len(col.cells) |->
                                        IF IsInstance(col.cells[i], "Decimal")
                                        THEN DecimalToFloat(col.cells[i])
                                        ELSE col.cells[i]]]
         ELSE col
    ELSE col

\* lines 134-142
ConvertDecimalColumns(columns) ==
    [c \in 1..Len(columns) |-> ConvertDecimalColumn(columns[c])]

DataFrame(query, query_parameters, job) ==
    [kind |-> "DataFrame", query |-> query,
     query_parameters |-> query_parameters, job |-> job, message |-> "",
     columns |-> ConvertDecimalColumns(ToDataframe(query))]

\* line 146
QueryExceptionDropsMessage(msg) ==
    [kind |-> "Exception", query |-> "", query_parameters |-> <<>>, job |-> 0,
     message |-> "Query execution failed", columns |-> <<>>]

QueryException(msg) ==
    [kind |-> "Exception", query |-> "", query_parameters |-> <<>>, job |-> 0,
     message |-> "Query execution failed: " \o msg, columns |-> <<>>]

NoValue ==
    [kind |-> "None", query |-> "", query_parameters |-> <<>>, job |-> 0,
     message |-> "", columns |-> <<>>]

execute_query(query, params, job, backendOk) ==
    IF backendOk
    THEN DataFrame(query, QueryParameters(params), job)
    ELSE QueryException(BackendMessage)

Raised(ret) == ret.kind = "Exception"

(***************************************************************************)
(* State.                                                                  *)
(***************************************************************************)
VARIABLES
    CACHE,      \* line 55: cache_key -> [data, timestamp]
    now,        \* time.time(), in seconds
    jobs,       \* number of execute_query invocations so far
    returned,   \* the job numbers whose execute_query returned a DataFrame
    ops,        \* number of calls made so far
    last,       \* Spec: the last completed call and what it did
    th,         \* SpecThreads: each caller's position and local variables
    binder,     \* SpecBind: a parameter mapping and the parameters bound from it
    norm,       \* SpecNorm: an object and what convert_decimal_values made of it
    ep,         \* SpecEndpoints: the last endpoint request and its queries
    http        \* SpecEndpoints: the last response of GET /health

vars == <<CACHE, now, jobs, returned, ops, last, th, binder, norm, ep, http>>

Entry(data, timestamp) == [data |-> data, timestamp |-> timestamp]

\* line 88: time.time() - timestamp < ttl_minutes * 60
IsFreshMinutes(t, timestamp, ttl_minutes) ==
    t - timestamp < ttl_minutes

IsFreshReversed(t, timestamp, ttl_minutes) ==
    timestamp - t < ttl_minutes * SecondsPerMinute

IsFreshInclusive(t, timestamp, ttl_minutes) ==
    t - timestamp <= ttl_minutes * SecondsPerMinute

\* the default of line 68 in place of the caller's ttl_minutes
IsFreshDefaultTtl(t, timestamp, ttl_minutes) ==
    t - timestamp < 60 * SecondsPerMinute

IsFresh(t, timestamp, ttl_minutes) ==
    t - timestamp < ttl_minutes * SecondsPerMinute

\* del d[key]
DelKeepsEntry(d, key) == d

PutAlone(d, key, value) == [k \in {key} |-> value]

Del(d, key) == [k \in DOMAIN d \ {key} |-> d[k]]

\* d[key] = value
Put(d, key, value) == [k \in DOMAIN d \cup {key} |-> IF k = key THEN value ELSE d[k]]

\* {}
EmptyDict == [k \in {} |-> NoValue]

\* lines 94-95: the entry is written only when execute_query returned
StoreResultAlways(cache, cache_key, df, t) ==
    Put(cache, cache_key, Entry(df, t))

StoreResult(cache, cache_key, df, t) ==
    IF Raised(df) THEN cache ELSE Put(cache, cache_key, Entry(df, t))

\* lines 87-89: a hit reads the entry and writes nothing
AfterHitRefreshes(cache, cache_key, t) ==
    [cache EXCEPT ![cache_key].timestamp = t]

AfterHit(cache, cache_key, t) == cache

\* line 61: len(CACHE)
CacheSize(cache) == Cardinality(DOMAIN cache)

\* what a call did: repeat says that the call before it was the same call
\* (same query, params and ttl_minutes), age is the age of the entry found at line 87 (-1: none),
\* executed whether execute_query was invoked, stored_at the timestamp
\* written at line 95 (-1: nothing stored), removed the count clear_cache reports
NoCall ==
    [op |-> "none", query |-> "", params |-> PyNone, ttl_minutes |-> 0,
     repeat |-> FALSE, age |-> -1, executed |-> FALSE, ret |-> NoValue,
     stored_at |-> -1, removed |-> 0]

(***************************************************************************)
(* Inputs.                                                                 *)
(***************************************************************************)
Queries == {"SELECT 1", "SELECT 2"}

A1 == Item("a", PyVal("int", 1))

B2 == Item("b", PyVal("int", 2))

ParamChoices ==
    {PyNone, Dict(<<>>), Dict(<<A1, B2>>), Dict(<<B2, A1>>)}

TTLs == {0, 1, 2}

Durations == {0, TickSeconds}

Threads == {"t1", "t2"}

\* a caller's locals; saw_expired: the test of line 88 failed in this call,
\* cleared_under: clear_cache emptied the cache while this call was running
IdleThread ==
    [pc |-> "idle", query |-> "", params |-> PyNone, ttl_minutes |-> 0,
     cache_key |-> "", data |-> NoValue, timestamp |-> -1, job |-> 0,
     df |-> NoValue, cache_size |-> -1, ret |-> NoValue,
     saw_expired |-> FALSE, cleared_under |-> FALSE]

NoBinding == [params |-> PyNone, query_parameters |-> <<>>, bound |-> FALSE]

\* step: how many times convert_decimal_values has been applied
NoNorm ==
    [obj |-> PyNoneValue, once |-> PyNoneValue, twice |-> PyNoneValue,
     step |-> 0]

\* an endpoint request: the calls it made of get_from_cache_or_execute, whether
\* it raised, and how many of its calls ran execute_query
NoRequest ==
    [endpoint |-> "", args |-> <<>>, calls |-> <<>>, raised |-> FALSE,
     message |-> "", executed |-> 0]

\* a response of GET /health; request: which request of the run it answers;
\* warehouse_up: the warehouse could answer a query while it was handled
NoResponse ==
    [request |-> 0, route |-> "", status_code |-> 0, status |-> "", bigquery_connection |-> "",
     detail |-> "", warehouse_up |-> FALSE]

Init ==
    /\ CACHE = EmptyDict
    /\ now = 0
    /\ jobs = 0
    /\ returned = {}
    /\ ops = 0
    /\ last = NoCall
    /\ th = [t \in Threads |-> IdleThread]
    /\ binder = NoBinding
    /\ norm = NoNorm
    /\ ep = NoRequest
    /\ http = NoResponse

\* time passes
Tick ==
    /\ now + TickSeconds <= MaxTime
    /\ now' = now + TickSeconds
    /\ UNCHANGED <<CACHE, jobs, returned, ops, last, th, binder, norm, ep, http>>

(***************************************************************************)
(* clear_cache, lines 57-63.                                               *)
(***************************************************************************)
clear_cache_counts_after ==
    /\ ops < MaxOps
    /\ CACHE' = EmptyDict
    /\ last' = [NoCall EXCEPT !.op = "clear", !.removed = CacheSize(CACHE')]
    /\ ops' = ops + 1
    /\ UNCHANGED <<now, jobs, returned, th, binder, norm, ep, http>>

clear_cache ==
    /\ ops < MaxOps
    /\ LET cache_size == CacheSize(CACHE)
       IN /\ CACHE' = EmptyDict
          /\ last' = [NoCall EXCEPT !.op = "clear", !.removed = cache_size]
    /\ ops' = ops + 1
    /\ UNCHANGED <<now, jobs, returned, th, binder, norm, ep, http>>

(***************************************************************************)
(* get_from_cache_or_execute, lines 65-96, run from entry to return.       *)
(* backendOk and duration are the warehouse's answer to the job and the    *)
(* time it takes.                                                          *)
(***************************************************************************)
get_from_cache_or_execute(query, params, ttl_minutes, backendOk, duration) ==
    LET cache_key == cache_key_of(query, params)
        cached == cache_key \in DOMAIN CACHE
        hit == cached /\ IsFresh(now, CACHE[cache_key].timestamp, ttl_minutes)
        \* line 91: the expired entry is removed before the query runs
        afterDel == IF cached THEN Del(CACHE, cache_key) ELSE CACHE
        call == [NoCall EXCEPT !.op = "get", !.query = query, !.params = params,
                               !.ttl_minutes = ttl_minutes,
                               !.repeat = /\ last.op = "get"
                                          /\ last.query = query
                                          /\ last.params = params
                                          /\ last.ttl_minutes = ttl_minutes,
                               !.age = IF cached
                                       THEN now - CACHE[cache_key].timestamp
                                       ELSE -1]
    IN
    /\ ops < MaxOps
    /\ ops' = ops + 1
    /\ UNCHANGED <<th, binder, norm, ep, http>>
    /\ IF hit
       THEN \* lines 86-89
            /\ last' = [call EXCEPT !.ret = CACHE[cache_key].data]
            /\ CACHE' = AfterHit(CACHE, cache_key, now)
            /\ UNCHANGED <<now, jobs, returned>>
       ELSE \* lines 90-96
            LET df == execute_query(query, params, jobs + 1, backendOk)
            IN /\ jobs < MaxExec
               /\ now + duration <= MaxTime
               /\ jobs' = jobs + 1
               /\ now' = now + duration
               /\ CACHE' = StoreResult(afterDel, cache_key, df, now')
               /\ IF Raised(df)
                  THEN /\ last' = [call EXCEPT !.executed = TRUE, !.ret = df]
                       /\ UNCHANGED returned
                  ELSE /\ last' = [call EXCEPT !.executed = TRUE, !.ret = df,
                                               !.stored_at = now']
                       /\ returned' = returned \cup {df.job}

Call ==
    \E query \in Queries, params \in ParamChoices, ttl_minutes \in TTLs,
       backendOk \in BOOLEAN, duration \in Durations :
        get_from_cache_or_execute(query, params, ttl_minutes, backendOk, duration)

Next ==
    \/ Tick
    \/ clear_cache
    \/ Call

Spec == Init /\ [][Next]_vars

(***************************************************************************)
(* Concurrent callers.  Each caller runs clear_cache or                    *)
(* get_from_cache_or_execute one statement at a time; a statement reads    *)
(* the global CACHE when it runs, and its dictionary operation is atomic.  *)
(* pc names the line the caller is about to run.                           *)
(***************************************************************************)
ThreadParams == {PyNone}

ThreadTTLs == {1}

\* CACHE[cache_key] and del CACHE[cache_key] on a missing key
KeyError(cache_key) ==
    [NoValue EXCEPT !.kind = "KeyError", !.message = cache_key]

\* line 63
ClearStatus(cache_size) ==
    [NoValue EXCEPT !.kind = "dict",
                    !.message = "Cache cleared - removed "
                                  \o ToString(cache_size) \o " entries"]

InGet(t) == th[t].pc \in {"l86", "l87", "l88", "l91", "l94", "l94wait", "l95"}

\* lines 65-83: a caller enters get_from_cache_or_execute
Enter(t, query, params, ttl_minutes) ==
    /\ th[t].pc = "idle"
    /\ ops < MaxOps
    /\ ops' = ops + 1
    /\ th' = [th EXCEPT ![t] =
                [IdleThread EXCEPT !.pc = "l86", !.query = query,
                                   !.params = params,
                                   !.ttl_minutes = ttl_minutes,
                                   !.cache_key = cache_key_of(query, params)]]
    /\ UNCHANGED <<CACHE, now, jobs, returned, last, binder, norm, ep, http>>

\* line 86: if cache_key in CACHE
L86UnderLock(t) ==
    /\ th[t].pc = "l86"
    /\ \A u \in Threads : th[u].pc # "l94wait"
    /\ th' = [th EXCEPT ![t].pc =
                IF th[t].cache_key \in DOMAIN CACHE THEN "l87" ELSE "l94"]
    /\ UNCHANGED <<CACHE, now, jobs, returned, ops, last, binder, norm, ep, http>>

L86(t) ==
    /\ th[t].pc = "l86"
    /\ th' = [th EXCEPT ![t].pc =
                IF th[t].cache_key \in DOMAIN CACHE THEN "l87" ELSE "l94"]
    /\ UNCHANGED <<CACHE, now, jobs, returned, ops, last, binder, norm, ep, http>>

\* line 87: data, timestamp = CACHE[cache_key]
L87(t) ==
    /\ th[t].pc = "l87"
    /\ th' = [th EXCEPT ![t] =
                IF th[t].cache_key \in DOMAIN CACHE
                THEN [@ EXCEPT !.pc = "l88",
                               !.data = CACHE[th[t].cache_key].data,
                               !.timestamp = CACHE[th[t].cache_key].timestamp]
                ELSE [@ EXCEPT !.pc = "raised",
                               !.ret = KeyError(th[t].cache_key)]]
    /\ UNCHANGED <<CACHE, now, jobs, returned, ops, last, binder, norm, ep, http>>

\* lines 88-89: if time.time() - timestamp < ttl_minutes * 60: return data
L88(t) ==
    /\ th[t].pc = "l88"
    /\ th' = [th EXCEPT ![t] =
                IF IsFresh(now, th[t].timestamp, th[t].ttl_minutes)
                THEN [@ EXCEPT !.pc = "returned", !.ret = th[t].data]
                ELSE [@ EXCEPT !.pc = "l91", !.saw_expired = TRUE]]
    /\ UNCHANGED <<CACHE, now, jobs, returned, ops, last, binder, norm, ep, http>>

\* line 91: del CACHE[cache_key]
L91(t) ==
    /\ th[t].pc = "l91"
    /\ IF th[t].cache_key \in DOMAIN CACHE
       THEN /\ CACHE' = Del(CACHE, th[t].cache_key)
            /\ th' = [th EXCEPT ![t].pc = "l94"]
       ELSE /\ th' = [th EXCEPT ![t].pc = "raised",
                                ![t].ret = KeyError(th[t].cache_key)]
            /\ UNCHANGED CACHE
    /\ UNCHANGED <<now, jobs, returned, ops, last, binder, norm, ep, http>>

\* line 94, lines 98-131: execute_query is called and submits the job
L94(t) ==
    /\ th[t].pc = "l94"
    /\ jobs < MaxExec
    /\ jobs' = jobs + 1
    /\ th' = [th EXCEPT ![t].pc = "l94wait", ![t].job = jobs']
    /\ UNCHANGED <<CACHE, now, returned, ops, last, binder, norm, ep, http>>

\* line 94, lines 132-146: the job ends and execute_query returns or raises
L94Return(t, backendOk) ==
    /\ th[t].pc = "l94wait"
    /\ LET df == execute_query(th[t].query, th[t].params, th[t].job, backendOk)
       IN IF Raised(df)
          THEN /\ th' = [th EXCEPT ![t].pc = "raised", ![t].ret = df]
               /\ UNCHANGED returned
          ELSE /\ th' = [th EXCEPT ![t].pc = "l95", ![t].df = df]
               /\ returned' = returned \cup {df.job}
    /\ UNCHANGED <<CACHE, now, jobs, ops, last, binder, norm, ep, http>>

\* lines 95-96: CACHE[cache_key] = (df, time.time()); return df
L95(t) ==
    /\ th[t].pc = "l95"
    /\ CACHE' = StoreResult(CACHE, th[t].cache_key, th[t].df, now)
    /\ th' = [th EXCEPT ![t].pc = "returned", ![t].ret = th[t].df]
    /\ UNCHANGED <<now, jobs, returned, ops, last, binder, norm, ep, http>>

\* lines 57-60: a caller enters clear_cache
EnterClear(t) ==
    /\ th[t].pc = "idle"
    /\ ops < MaxOps
    /\ ops' = ops + 1
    /\ th' = [th EXCEPT ![t] = [IdleThread EXCEPT !.pc = "l61"]]
    /\ UNCHANGED <<CACHE, now, jobs, returned, last, binder, norm, ep, http>>

\* line 61: cache_size = len(CACHE)
L61(t) ==
    /\ th[t].pc = "l61"
    /\ th' = [th EXCEPT ![t].pc = "l62", ![t].cache_size = CacheSize(CACHE)]
    /\ UNCHANGED <<CACHE, now, jobs, returned, ops, last, binder, norm, ep, http>>

\* lines 62-63: CACHE = {}; return the status.  Every caller that is inside
\* get_from_cache_or_execute at this moment notes that a clear ran under it.
L62(t) ==
    /\ th[t].pc = "l62"
    /\ CACHE' = EmptyDict
    /\ th' = [u \in Threads |->
                IF u = t
                THEN [th[u] EXCEPT !.pc = "returned",
                                   !.ret = ClearStatus(th[t].cache_size)]
                ELSE IF InGet(u)
                     THEN [th[u] EXCEPT !.cleared_under = TRUE]
                     ELSE th[u]]
    /\ UNCHANGED <<now, jobs, returned, ops, last, binder, norm, ep, http>>

\* the caller has its result or its exception and is free for another call
Leave(t) ==
    /\ th[t].pc \in {"returned", "raised"}
    /\ th' = [th EXCEPT ![t] = IdleThread]
    /\ UNCHANGED <<CACHE, now, jobs, returned, ops, last, binder, norm, ep, http>>

NextThreads ==
    \/ Tick
    \/ \E t \in Threads, query \in Queries, params \in ThreadParams,
          ttl_minutes \in ThreadTTLs : Enter(t, query, params, ttl_minutes)
    \/ \E t \in Threads : L86(t)
    \/ \E t \in Threads : L87(t)
    \/ \E t \in Threads : L88(t)
    \/ \E t \in Threads : L91(t)
    \/ \E t \in Threads : L94(t)
    \/ \E t \in Threads, backendOk \in BOOLEAN : L94Return(t, backendOk)
    \/ \E t \in Threads : L95(t)
    \/ \E t \in Threads : EnterClear(t)
    \/ \E t \in Threads : L61(t)
    \/ \E t \in Threads : L62(t)
    \/ \E t \in Threads : Leave(t)

SpecThreads == Init /\ [][NextThreads]_vars

(***************************************************************************)
(* The parameter binder on its own: lines 110-129 of execute_query applied *)
(* to one parameter mapping.                                               *)
(***************************************************************************)
MaxBindItems == 2

BindNames == {"a", "b"}

BindValues ==
    {PyVal("bool", TRUE), PyVal("bool", FALSE), PyVal("int", 0), PyVal("int", 1),
     PyVal("float", "1.5"), PyVal("str", "x"), PyVal("date", "2018, 1, 1"),
     PyVal("NoneType", "None")}

BindItems == {Item(n, v) : n \in BindNames, v \in BindValues}

\* the dicts of at most MaxBindItems items, each name used once
BindDicts ==
    UNION {{Dict(items) : items \in
               {x \in [1..n -> BindItems] :
                   \A i \in 1..n, j \in 1..n : x[i].name = x[j].name => i = j}} :
           n \in 0..MaxBindItems}

InitBind ==
    /\ CACHE = EmptyDict
    /\ now = 0
    /\ jobs = 0
    /\ returned = {}
    /\ ops = 0
    /\ last = NoCall
    /\ th = [t \in Threads |-> IdleThread]
    /\ binder \in {[NoBinding EXCEPT !.params = params] :
                     params \in BindDicts \cup {PyNone}}
    /\ norm = NoNorm
    /\ ep = NoRequest
    /\ http = NoResponse

Bind ==
    /\ ~binder.bound
    /\ binder' = [binder EXCEPT !.query_parameters = QueryParameters(binder.params),
                                !.bound = TRUE]
    /\ UNCHANGED <<CACHE, now, jobs, returned, ops, last, th, norm, ep, http>>

NextBind == Bind

SpecBind == InitBind /\ [][NextBind]_vars

(***************************************************************************)
(* The value normaliser on its own: convert_decimal_values applied to the  *)
(* kind of object the endpoints hand it (lines 201, 219-221, 562-570): a   *)
(* cell, a record, a list of records, a result dict holding either.        *)
(***************************************************************************)
MaxNormLen == 2

NormScalars ==
    {PyVal("Decimal", "1.5"), PyVal("Decimal", "2"), PyVal("Decimal", "NaN"),
     PyVal("float", "1.5"), PyVal("float", "nan"),
     PyVal("numpy.float64", "2.5"), PyVal("numpy.float64", "nan"),
     PyNoneValue, PyVal("int", 1), PyVal("str", "x"), PyVal("bool", TRUE),
     PyVal("date", "2018, 1, 1")}

NormKey(i) == "k" \o ToString(i)

\* lists of at most MaxNormLen cells
FlatLists ==
    UNION {{PyVal("list", cells) : cells \in [1..n -> NormScalars]} :
           n \in 0..MaxNormLen}

\* records of at most MaxNormLen cells
FlatDicts ==
    UNION {{PyVal("dict", [i \in 1..n |-> Item(NormKey(i), cells[i])]) :
               cells \in [1..n -> NormScalars]} :
           n \in 0..MaxNormLen}

\* df.to_dict('records')
RecordLists == {PyVal("list", <<record>>) : record \in FlatDicts}

\* result dicts: result['patients'] = df.to_dict('records') and the like
ResultDicts ==
    {PyVal("dict", <<Item("patients", records)>>) : records \in RecordLists}
    \cup {PyVal("dict", <<Item("values", cells)>>) : cells \in FlatLists}

NormInputs ==
    NormScalars \cup FlatLists \cup FlatDicts \cup RecordLists \cup ResultDicts

InitNorm ==
    /\ CACHE = EmptyDict
    /\ now = 0
    /\ jobs = 0
    /\ returned = {}
    /\ ops = 0
    /\ last = NoCall
    /\ th = [t \in Threads |-> IdleThread]
    /\ binder = NoBinding
    /\ norm \in {[NoNorm EXCEPT !.obj = obj] : obj \in NormInputs}
    /\ ep = NoRequest
    /\ http = NoResponse

\* convert_decimal_values(obj)
Normalize ==
    /\ norm.step = 0
    /\ norm' = [norm EXCEPT !.once = convert_decimal_values(norm.obj),
                            !.step = 1]
    /\ UNCHANGED <<CACHE, now, jobs, returned, ops, last, th, binder, ep, http>>

\* convert_decimal_values applied to its own result
NormalizeAgain ==
    /\ norm.step = 1
    /\ norm' = [norm EXCEPT !.twice = convert_decimal_values(norm.once),
                            !.step = 2]
    /\ UNCHANGED <<CACHE, now, jobs, returned, ops, last, th, binder, ep, http>>

NextNorm ==
    \/ Normalize
    \/ NormalizeAgain

SpecNorm == InitNorm /\ [][NextNorm]_vars

(***************************************************************************)
(* The analytic endpoints, lines 170-651.  Each handler builds its query   *)
(* texts and its parameter mapping from the caller's arguments and runs    *)
(* them through get_from_cache_or_execute.  A query text is written with   *)
(* its fixed part abbreviated (and without the backquotes of its table     *)
(* names) and every interpolated part in full.                             *)
(***************************************************************************)
MaxRequests == 2

\* truth value of an argument in if service_category: and the like
ArgTruthy(value) ==
    CASE value.type = "NoneType" -> FALSE
      [] value.type = "bool" -> value.val
      [] value.type = "str" -> value.val # ""
      [] OTHER -> TRUE

PyStr(text) == PyVal("str", text)

\* int(year): the number, or -1 where int raises ValueError
IntOf(text) ==
    CASE text = "2018" -> 2018
      [] text = "2019" -> 2019
      [] OTHER -> -1

\* start_date[:7].replace('-', '')
YearMonth(date) ==
    CASE date = "2018-01-01" -> "201801"
      [] date = "2018-07-01" -> "201807"
      [] date = "2018-12-31" -> "201812"
      [] OTHER -> date

CacheCall(query, params, ttl_minutes) ==
    [query |-> query, params |-> params, ttl_minutes |-> ttl_minutes]

\* lines 65-96 as a function of the cache (CACHE, jobs, returned) at time t
cached_call(c, t, call, backendOk) ==
    LET cache_key == cache_key_of(call.query, call.params)
        cached == cache_key \in DOMAIN c.CACHE
        hit == cached /\ IsFresh(t, c.CACHE[cache_key].timestamp, call.ttl_minutes)
        afterDel == IF cached THEN Del(c.CACHE, cache_key) ELSE c.CACHE
        df == execute_query(call.query, call.params, c.jobs + 1, backendOk)
    IN IF hit
       THEN [CACHE |-> AfterHit(c.CACHE, cache_key, t), jobs |-> c.jobs,
             returned |-> c.returned, ret |-> c.CACHE[cache_key].data,
             executed |-> c.executed]
       ELSE [CACHE |-> StoreResult(afterDel, cache_key, df, t),
             jobs |-> c.jobs + 1,
             returned |-> IF Raised(df) THEN c.returned
                          ELSE c.returned \cup {df.job},
             ret |-> df, executed |-> c.executed + 1]

\* a handler that makes the calls in order; an exception of a call ends it.
\* oks[i] is the warehouse's answer to call i, should it reach the warehouse.
Handle(endpoint, args, calls, oks) ==
    LET c0 == [CACHE |-> CACHE, jobs |-> jobs, returned |-> returned,
               ret |-> NoValue, executed |-> 0]
        c1 == cached_call(c0, now, calls[1], oks[1])
        second == Len(calls) = 2 /\ ~Raised(c1.ret)
        c2 == IF second THEN cached_call(c1, now, calls[2], oks[2]) ELSE c1
    IN /\ ops < MaxRequests
       /\ ops' = ops + 1
       /\ CACHE' = c2.CACHE
       /\ jobs' = c2.jobs
       /\ returned' = c2.returned
       /\ ep' = [endpoint |-> endpoint, args |-> args,
                 calls |-> IF second THEN calls ELSE <<calls[1]>>,
                 raised |-> Raised(c2.ret),
                 message |-> c2.ret.message,
                 executed |-> c2.executed]
       /\ UNCHANGED <<now, last, th, binder, norm>>

\* a handler that raises before it makes a call (int(year) failed)
HandleValueError(endpoint, args) ==
    /\ ops < MaxRequests
    /\ ops' = ops + 1
    /\ ep' = [endpoint |-> endpoint, args |-> args, calls |-> <<>>,
              raised |-> TRUE, message |-> "invalid literal for int()",
              executed |-> 0]
    /\ UNCHANGED <<CACHE, now, jobs, returned, last, th, binder, norm>>

\* line 52: os.getenv('BIGQUERY_DATASET_PREFIX', '')
DATASET_PREFIX == ""

AND(where_clauses) ==
    IF Len(where_clauses) = 1 THEN where_clauses[1]
    ELSE where_clauses[1] \o " AND " \o where_clauses[2]

\* the parameter mapping with extra added when the optional argument is given
WithOptional(items, name, value, bound) ==
    Dict(IF ArgTruthy(value) THEN items \o <<Item(name, bound)>> ELSE items)

\* lines 171-221
get_patient_demographics(start_date, end_date, age_groups, oks) ==
    LET base_query ==
            "SELECT COUNT(DISTINCT p.person_id) ... FROM " \o DATASET_PREFIX
            \o "core.patient p INNER JOIN " \o DATASET_PREFIX
            \o "core.eligibility e ... WHERE e.enrollment_start_date <= @end_date"
            \o " AND e.enrollment_end_date >= @start_date"
        age_group_query ==
            "SELECT p.age_group, COUNT(*) ... FROM " \o DATASET_PREFIX
            \o "core.patient p INNER JOIN " \o DATASET_PREFIX
            \o "core.eligibility e ... WHERE e.enrollment_start_date <= @end_date"
            \o " AND e.enrollment_end_date >= @start_date"
            \o " AND p.age_group IS NOT NULL GROUP BY p.age_group ORDER BY p.age_group"
        params == Dict(<<Item("start_date", PyStr(start_date)),
                         Item("end_date", PyStr(end_date))>>)
    IN Handle("get_patient_demographics",
              <<PyStr(start_date), PyStr(end_date), PyVal("bool", age_groups)>>,
              IF age_groups
              THEN <<CacheCall(base_query, params, 240),
                     CacheCall(age_group_query, params, 240)>>
              ELSE <<CacheCall(base_query, params, 240)>>,
              oks)

\* lines 224-296
get_utilization_summary(start_date, end_date, service_category, oks) ==
    LET where_clause ==
            AND(IF ArgTruthy(service_category)
                THEN <<"claim_start_date BETWEEN @start_date AND @end_date",
                       "service_category_1 = @service_category">>
                ELSE <<"claim_start_date BETWEEN @start_date AND @end_date">>)
        params == WithOptional(<<Item("start_date", PyStr(start_date)),
                                 Item("end_date", PyStr(end_date))>>,
                               "service_category", service_category,
                               service_category)
        query ==
            "WITH utilization_stats AS (SELECT ... FROM " \o DATASET_PREFIX
            \o "core.medical_claim WHERE " \o where_clause
            \o "), service_breakdown AS (SELECT ... FROM " \o DATASET_PREFIX
            \o "core.medical_claim WHERE " \o where_clause
            \o " GROUP BY service_category_1 ORDER BY claim_count DESC LIMIT 10)"
            \o " SELECT * FROM utilization_stats"
        service_query ==
            "SELECT service_category_1, ... FROM " \o DATASET_PREFIX
            \o "core.medical_claim WHERE " \o where_clause
            \o " GROUP BY service_category_1 ORDER BY claim_count DESC LIMIT 10"
    IN Handle("get_utilization_summary",
              <<PyStr(start_date), PyStr(end_date), service_category>>,
              <<CacheCall(query, params, 120),
                CacheCall(service_query, params, 120)>>,
              oks)

\* lines 299-360
get_pmpm_analysis(start_date, end_date, payer, oks) ==
    LET start_ym == YearMonth(start_date)
        end_ym == YearMonth(end_date)
        where_clause ==
            AND(IF ArgTruthy(payer)
                THEN <<"year_month BETWEEN @start_ym AND @end_ym",
                       "payer = @payer">>
                ELSE <<"year_month BETWEEN @start_ym AND @end_ym">>)
        params == WithOptional(<<Item("start_ym", PyStr(start_ym)),
                                 Item("end_ym", PyStr(end_ym))>>,
                               "payer", payer, payer)
        query ==
            "SELECT COUNT(DISTINCT person_id || year_month) ... FROM "
            \o DATASET_PREFIX \o "financial_pmpm.pmpm_prep WHERE " \o where_clause
        trend_query ==
            "SELECT year_month, ... FROM " \o DATASET_PREFIX
            \o "financial_pmpm.pmpm_prep WHERE " \o where_clause
            \o " GROUP BY year_month ORDER BY year_month"
    IN Handle("get_pmpm_analysis",
              <<PyStr(start_date), PyStr(end_date), payer>>,
              <<CacheCall(query, params, 60), CacheCall(trend_query, params, 60)>>,
              oks)

\* lines 363-455
get_quality_measures_summary(measure_name, year, oks) ==
    LET params == Dict(<<Item("year", PyStr(year))>>)
        query ==
            IF ArgTruthy(measure_name)
            THEN "SELECT COUNT(DISTINCT person_id) as total_patients, SUM(CASE WHEN "
                 \o measure_name.val \o " = 1 THEN 1 ELSE 0 END) as numerator,"
                 \o " COUNT(CASE WHEN " \o measure_name.val
                 \o " IS NOT NULL THEN person_id END) as denominator,"
                 \o " ROUND(SAFE_DIVIDE(SUM(CASE WHEN " \o measure_name.val
                 \o " = 1 THEN 1 ELSE 0 END), COUNT(CASE WHEN " \o measure_name.val
                 \o " IS NOT NULL THEN person_id END)) * 100, 2) as performance_rate_pct"
                 \o " FROM " \o DATASET_PREFIX \o "quality_measures.summary_wide"
            ELSE "SELECT 'adh_diabetes' as measure_name, ... FROM " \o DATASET_PREFIX
                 \o "quality_measures.summary_wide UNION ALL ... ORDER BY measure_name"
    IN Handle("get_quality_measures_summary", <<measure_name, PyStr(year)>>,
              <<CacheCall(query, params, 360)>>, oks)

\* lines 458-514
get_chronic_conditions_prevalence(condition_category, year, oks) ==
    LET start_date == year \o "-01-01"
        end_date == year \o "-12-31"
        where_clause ==
            "first_diagnosis_date <= DATE(@end_date) AND "
            \o "(last_diagnosis_date IS NULL OR last_diagnosis_date >= DATE(@start_date))"
            \o (IF ArgTruthy(condition_category)
                THEN " AND condition = @condition_category" ELSE "")
        params == WithOptional(<<Item("start_date", PyStr(start_date)),
                                 Item("end_date", PyStr(end_date)),
                                 Item("year", PyVal("int", IntOf(year)))>>,
                               "condition_category", condition_category,
                               condition_category)
        query ==
            "SELECT condition AS condition_name, ... FROM " \o DATASET_PREFIX
            \o "core.medical_claim WHERE EXTRACT(YEAR FROM claim_start_date) = @year"
            \o " ... FROM " \o DATASET_PREFIX
            \o "chronic_conditions.tuva_chronic_conditions_long WHERE " \o where_clause
            \o " GROUP BY condition_name ORDER BY patient_count DESC LIMIT 20"
    IN IF IntOf(year) < 0
       THEN HandleValueError("get_chronic_conditions_prevalence",
                             <<condition_category, PyStr(year)>>)
       ELSE Handle("get_chronic_conditions_prevalence",
                   <<condition_category, PyStr(year)>>,
                   <<CacheCall(query, params, 480)>>, oks)

\* lines 517-570
get_high_cost_patients(cost_threshold, year, limit, oks) ==
    LET query ==
            "WITH patient_costs AS (SELECT ... FROM " \o DATASET_PREFIX
            \o "core.medical_claim WHERE EXTRACT(YEAR FROM claim_start_date) = @year"
            \o " GROUP BY person_id HAVING total_paid >= @cost_threshold"
            \o " ORDER BY total_paid DESC LIMIT @limit) SELECT ... JOIN "
            \o DATASET_PREFIX \o "core.patient p ... ORDER BY pc.total_paid DESC"
        params == Dict(<<Item("year", PyVal("int", IntOf(year))),
                         Item("cost_threshold", cost_threshold),
                         Item("limit", limit)>>)
    IN IF IntOf(year) < 0
       THEN HandleValueError("get_high_cost_patients",
                             <<cost_threshold, PyStr(year), limit>>)
       ELSE Handle("get_high_cost_patients",
                   <<cost_threshold, PyStr(year), limit>>,
                   <<CacheCall(query, params, 30)>>, oks)

\* lines 573-610
get_readmissions_analysis(year, condition_category, oks) ==
    LET where_clause ==
            AND(IF ArgTruthy(condition_category)
                THEN <<"EXTRACT(YEAR FROM admit_date) = @year",
                       "diagnosis_ccs LIKE @condition_category">>
                ELSE <<"EXTRACT(YEAR FROM admit_date) = @year">>)
        params == WithOptional(<<Item("year", PyVal("int", IntOf(year)))>>,
                               "condition_category", condition_category,
                               PyStr("%" \o condition_category.val \o "%"))
        query ==
            "SELECT COUNT(DISTINCT encounter_id) ... FROM " \o DATASET_PREFIX
            \o "readmissions.encounter_augmented WHERE " \o where_clause
    IN IF IntOf(year) < 0
       THEN HandleValueError("get_readmissions_analysis",
                             <<PyStr(year), condition_category>>)
       ELSE Handle("get_readmissions_analysis",
                   <<PyStr(year), condition_category>>,
                   <<CacheCall(query, params, 180)>>, oks)

\* lines 613-651
get_hcc_risk_scores(year, limit, oks) ==
    LET query ==
            "SELECT person_id, blended_risk_score as hcc_risk_score, member_months FROM "
            \o DATASET_PREFIX \o "cms_hcc.patient_risk_scores WHERE payment_year = @year"
            \o " AND blended_risk_score IS NOT NULL"
            \o " ORDER BY blended_risk_score DESC LIMIT @limit"
        params == Dict(<<Item("year", PyVal("int", IntOf(year))),
                         Item("limit", limit)>>)
    IN IF IntOf(year) < 0
       THEN HandleValueError("get_hcc_risk_scores", <<PyStr(year), limit>>)
       ELSE Handle("get_hcc_risk_scores", <<PyStr(year), limit>>,
                   <<CacheCall(query, params, 720)>>, oks)

\* the arguments callers send
StartDates == {"2018-01-01", "2018-07-01"}

EndDates == {"2018-12-31"}

YearTexts == {"2018", "2019", "20x8"}

OptionalTexts == {PyNoneValue, PyStr("inpatient")}

MeasureNames == {PyNoneValue, PyStr("cqm_130"), PyStr("1) OR (adh_ras")}

CostThresholds == {PyVal("float", "10000.0")}

Limits == {PyVal("int", 100)}

\* the warehouse's answers to the (at most two) queries of a request
Answers == [1..2 -> BOOLEAN]

\* cloud_run_server.py lines 68-89: GET /health.  The warehouse is up when it
\* would answer the query of this request.
health_check(oks) ==
    /\ get_patient_demographics("2018-01-01", "2018-01-01", FALSE, oks)
    /\ http' = IF ep'.raised
               THEN [NoResponse EXCEPT
                       !.request = ops',
                       !.route = "/health", !.status_code = 503,
                       !.detail = "Service unhealthy: " \o ep'.message,
                       !.warehouse_up = oks[1]]
               ELSE [NoResponse EXCEPT
                       !.request = ops',
                       !.route = "/health", !.status_code = 200,
                       !.status = "healthy", !.bigquery_connection = "ok",
                       !.warehouse_up = oks[1]]

NextEndpoints ==
    \/ \E start_date \in StartDates, end_date \in EndDates,
          age_groups \in BOOLEAN, oks \in Answers :
           get_patient_demographics(start_date, end_date, age_groups, oks)
             /\ UNCHANGED http
    \/ \E start_date \in StartDates, end_date \in EndDates,
          service_category \in OptionalTexts, oks \in Answers :
           get_utilization_summary(start_date, end_date, service_category, oks)
             /\ UNCHANGED http
    \/ \E start_date \in StartDates, end_date \in EndDates,
          payer \in OptionalTexts, oks \in Answers :
           get_pmpm_analysis(start_date, end_date, payer, oks)
             /\ UNCHANGED http
    \/ \E measure_name \in MeasureNames, year \in YearTexts, oks \in Answers :
           get_quality_measures_summary(measure_name, year, oks)
             /\ UNCHANGED http
    \/ \E condition_category \in OptionalTexts, year \in YearTexts,
          oks \in Answers :
           get_chronic_conditions_prevalence(condition_category, year, oks)
             /\ UNCHANGED http
    \/ \E cost_threshold \in CostThresholds, year \in YearTexts,
          limit \in Limits, oks \in Answers :
           get_high_cost_patients(cost_threshold, year, limit, oks)
             /\ UNCHANGED http
    \/ \E year \in YearTexts, condition_category \in OptionalTexts,
          oks \in Answers :
           get_readmissions_analysis(year, condition_category, oks)
             /\ UNCHANGED http
    \/ \E year \in YearTexts, limit \in Limits, oks \in Answers :
           get_hcc_risk_scores(year, limit, oks)
             /\ UNCHANGED http
    \/ \E oks \in Answers : health_check(oks)

SpecEndpoints == Init /\ [][NextEndpoints]_vars

(***************************************************************************)
(* Properties of sequential callers (Spec).                                *)
(***************************************************************************)
\* this step is a call of get_from_cache_or_execute that follows another one
GetAfterGet == ops' = ops + 1 /\ last.op = "get" /\ last'.op = "get"

\* ... with the same query, params and ttl_minutes
RepeatsLast ==
    /\ GetAfterGet
    /\ last'.query = last.query
    /\ last'.params = last.params
    /\ last'.ttl_minutes = last.ttl_minutes

\* the call before this step ran execute_query and stored its result
LastStored == last.op = "get" /\ last.executed /\ ~Raised(last.ret)

\* the (name, value) pairs of a list of bound parameters
BoundMapping(query_parameters) ==
    {Item(query_parameters[i].name, query_parameters[i].value) :
        i \in 1..Len(query_parameters)}

\* C1: a call repeated with the same query, params and ttl > 0 less than ttl
\* after the first call stored its result does not run execute_query again
\* (one invocation in total) and returns the table the first call returned.
C1_TwiceWithinTtlComputesOnce ==
    [][(/\ RepeatsLast
        /\ LastStored
        /\ last'.ttl_minutes > 0
        /\ now - last.stored_at < last'.ttl_minutes * SecondsPerMinute)
       => (/\ ~last'.executed
           /\ jobs' = jobs
           /\ last'.ret = last.ret)]_vars

\* two calls of the same pair, one execute_query, the second one a hit
C1_Witness ==
    /\ ops = 2 /\ jobs = 1
    /\ last.op = "get" /\ last.repeat /\ last.ttl_minutes > 0
    /\ ~last.executed /\ last.age >= 0
    /\ last.ret.kind = "DataFrame" /\ last.ret.job = 1

\* C2: a call repeated with the same query, params and ttl more than ttl
\* after the first call stored its result runs execute_query a second time
\* and returns (and stores) the table of that second job, not the stored one.
C2_TwicePastTtlComputesAgain ==
    [][(/\ RepeatsLast
        /\ LastStored
        /\ now - last.stored_at > last'.ttl_minutes * SecondsPerMinute)
       => (/\ last'.executed
           /\ jobs' = jobs + 1
           /\ (~Raised(last'.ret) =>
                 /\ last'.ret.job = jobs'
                 /\ last'.ret # last.ret
                 /\ CACHE'[cache_key_of(last'.query, last'.params)].data
                      = last'.ret))]_vars

\* the second of two equal calls found the entry of the first older than its
\* ttl and returned the table of a second job
C2_Witness ==
    /\ ops = 2 /\ jobs = 2
    /\ last.op = "get" /\ last.repeat /\ last.ttl_minutes > 0
    /\ last.age > last.ttl_minutes * SecondsPerMinute
    /\ last.executed /\ last.ret.kind = "DataFrame" /\ last.ret.job = 2

\* C3: the cache key does not depend on the order of the parameter mapping:
\* a call whose params hold the same name/value pairs as the call before it,
\* in whatever order, made within the ttl, is a hit.
C3_KeyIsOrderIndependent ==
    [][(/\ GetAfterGet
        /\ last'.query = last.query
        /\ Mapping(last'.params) = Mapping(last.params)
        /\ last'.ttl_minutes = last.ttl_minutes
        /\ LastStored
        /\ now - last.stored_at < last'.ttl_minutes * SecondsPerMinute)
       => (/\ ~last'.executed
           /\ last'.ret.job = last.ret.job)]_vars

\* C4: every table returned for (query, params) was produced by an
\* execute_query for the same query and the same name/value pairs, every
\* entry sits under the key of the pair it was computed for, and no two
\* entries hold tables of the same logical pair.
C4_OneEntryPerLogicalPair ==
    /\ (last.op = "get" /\ last.ret.kind = "DataFrame") =>
          /\ last.ret.query = last.query
          /\ BoundMapping(last.ret.query_parameters) = Mapping(last.params)
    /\ \A k1 \in DOMAIN CACHE, k2 \in DOMAIN CACHE :
          (/\ CACHE[k1].data.query = CACHE[k2].data.query
           /\ BoundMapping(CACHE[k1].data.query_parameters)
                = BoundMapping(CACHE[k2].data.query_parameters))
          => k1 = k2

\* C5: every cache entry holds a table that an execute_query returned; a call
\* whose execute_query raises leaves no entry under its key; and the same call
\* made again after a failure runs execute_query again.
C5_FailureIsNeverCached ==
    [][/\ \A k \in DOMAIN CACHE' :
             /\ CACHE'[k].data.kind = "DataFrame"
             /\ CACHE'[k].data.job \in returned'
       /\ (ops' = ops + 1 /\ last'.op = "get" /\ Raised(last'.ret)) =>
             cache_key_of(last'.query, last'.params) \notin DOMAIN CACHE'
       /\ (RepeatsLast /\ Raised(last.ret)) =>
             (last'.executed /\ jobs' = jobs + 1)]_vars

\* a call found an expired entry, its execute_query raised, and the key is
\* left without an entry
C5_Witness ==
    /\ last.op = "get" /\ last.executed /\ Raised(last.ret)
    /\ last.age >= 0
    /\ cache_key_of(last.query, last.params) \notin DOMAIN CACHE
    /\ jobs \notin returned

\* C6: clear_cache reports the number of entries held before the call and
\* leaves the cache empty; the call that follows it, for any key, finds no
\* entry and runs execute_query.
C6_ClearRemovesAndCounts ==
    [][/\ (ops' = ops + 1 /\ last'.op = "clear") =>
             /\ last'.removed = Cardinality(DOMAIN CACHE)
             /\ DOMAIN CACHE' = {}
       /\ (ops' = ops + 1 /\ last.op = "clear" /\ last'.op = "get") =>
             /\ last'.age = -1
             /\ last'.executed
             /\ jobs' = jobs + 1]_vars

\* clear_cache ran on a cache of two entries
C6_Witness ==
    /\ last.op = "clear" /\ last.removed = 2
    /\ DOMAIN CACHE = {}
    /\ Cardinality(returned) = 2

(***************************************************************************)
(* Properties of the parameter binder (SpecBind).                          *)
(***************************************************************************)
\* the kind the binder is to infer for a value of each runtime type
KindOf(value) ==
    CASE value.type = "bool" -> "BOOL"
      [] value.type = "int" -> "INT64"
      [] value.type = "float" -> "FLOAT64"
      [] value.type = "str" -> "STRING"
      [] OTHER -> "STRING"

\* C10: the binder binds every entry of the mapping, each under exactly one
\* kind: a bool as BOOL (never INT64), an int as INT64, a float as FLOAT64, a
\* str as STRING, and a value of any other type (a date, None) as STRING.
C10_BinderInfersOneKind ==
    binder.bound =>
        LET items == binder.params.items
            bound == binder.query_parameters
        IN /\ Len(bound) = Len(items)
           /\ \A i \in 1..Len(items) :
                 /\ bound[i].name = items[i].name
                 /\ bound[i].type_ = KindOf(items[i].value)
                 /\ bound[i].type_ \in {"BOOL", "INT64", "FLOAT64", "STRING"}

\* a mapping with a bool and a date was bound
C10_Witness ==
    /\ binder.bound
    /\ \E i, j \in 1..Len(binder.query_parameters) :
          /\ binder.query_parameters[i].value.type = "bool"
          /\ binder.query_parameters[i].type_ = "BOOL"
          /\ binder.query_parameters[j].value.type = "date"
          /\ binder.query_parameters[j].type_ = "STRING"

(***************************************************************************)
(* Properties of concurrent callers (SpecThreads).                         *)
(***************************************************************************)
\* every caller is in, or has just finished, a get_from_cache_or_execute for
\* one and the same key, and no clear_cache ran under any of them
SameKeyRound ==
    \A t \in Threads, u \in Threads :
        /\ th[t].cache_key # ""
        /\ th[t].cache_key = th[u].cache_key
        /\ ~th[t].cleared_under

\* every entry is a (DataFrame, timestamp) pair
WellFormed(cache) ==
    \A k \in DOMAIN cache :
        /\ cache[k].data.kind = "DataFrame"
        /\ cache[k].data.job \in returned
        /\ cache[k].timestamp \in 0..now

\* C7: when all callers call get_from_cache_or_execute concurrently with the
\* same key, none of them fails with an error that does not come from
\* execute_query, and once all have their table the cache holds one
\* well-formed entry for the key whose table is one of the computed tables.
C7_ConcurrentSameKey ==
    SameKeyRound =>
        /\ \A t \in Threads : th[t].ret.kind # "KeyError"
        /\ (\A t \in Threads : th[t].pc = "returned") =>
              \A t \in Threads :
                 /\ th[t].cache_key \in DOMAIN CACHE
                 /\ WellFormed(CACHE)
                 /\ \E u \in Threads : CACHE[th[t].cache_key].data = th[u].ret

\* C8: a get_from_cache_or_execute call under which clear_cache ran does not
\* fail because of it, and the cache stays a well-formed mapping from key to
\* (table, timestamp).
C8_ClearIsSafe ==
    /\ WellFormed(CACHE)
    /\ \A t \in Threads :
          th[t].cleared_under => th[t].ret.kind # "KeyError"

\* C9: when two callers have both found the same entry of a key expired,
\* neither fails (removing the entry included), and once both have returned
\* the cache holds a fresh entry for the key, stored by one of them.
C9_ExpiredEntryRace ==
    \A t \in Threads, u \in Threads :
        (/\ t # u
         /\ th[t].saw_expired /\ th[u].saw_expired
         /\ th[t].cache_key = th[u].cache_key
         /\ th[t].data.job = th[u].data.job
         /\ ~th[t].cleared_under /\ ~th[u].cleared_under)
        => /\ th[t].ret.kind # "KeyError"
           /\ (th[t].pc = "returned" /\ th[u].pc = "returned") =>
                 /\ th[t].cache_key \in DOMAIN CACHE
                 /\ CACHE[th[t].cache_key].data \in {th[t].df, th[u].df}

(***************************************************************************)
(* Properties of the value normaliser (SpecNorm).                          *)
(***************************************************************************)
\* C11: the normaliser is idempotent: applied to its own result, for inputs
\* built from decimals, nested mappings, nested lists, null-like values and
\* plain scalars, it returns that result unchanged.
C11_NormalizerIdempotent ==
    norm.step = 2 => norm.twice = norm.once

\* a result dict whose records hold a Decimal and a numpy NaN was normalised
\* twice, and the first pass changed it
C11_Witness ==
    /\ norm.step = 2
    /\ norm.obj.type = "dict"
    /\ Len(norm.obj.val) = 1
    /\ norm.obj.val[1].value.type = "list"
    /\ Len(norm.obj.val[1].value.val) = 1
    /\ norm.obj.val[1].value.val[1].type = "dict"
    /\ norm.obj.val[1].value.val[1].val
          = <<Item(NormKey(1), PyVal("Decimal", "2")),
              Item(NormKey(2), PyVal("numpy.float64", "nan"))>>
    /\ norm.once # norm.obj

\* the float a Decimal of the inputs corresponds to
CorrespondingFloat(text) ==
    CASE text = "1.5" -> PyVal("float", "1.5")
      [] text = "2" -> PyVal("float", "2.0")
      [] text = "NaN" -> PyVal("float", "nan")

\* what the normaliser is to make of a dict, a list and a Decimal
StructurePreserved(obj, out) ==
    /\ obj.type = "dict" =>
          /\ out.type = "dict"
          /\ Len(out.val) = Len(obj.val)
          /\ \A i \in 1..Len(obj.val) :
                /\ out.val[i].name = obj.val[i].name
                /\ out.val[i].value = convert_decimal_values(obj.val[i].value)
    /\ obj.type = "list" =>
          /\ out.type = "list"
          /\ Len(out.val) = Len(obj.val)
          /\ \A i \in 1..Len(obj.val) :
                out.val[i] = convert_decimal_values(obj.val[i])
    /\ obj.type = "Decimal" => out = CorrespondingFloat(obj.val)

\* C19: the normaliser preserves structure: a mapping yields a mapping with
\* the same keys and each value normalised, a list a list of the same length
\* and order with each element normalised, a decimal the corresponding
\* float, and every other scalar is returned unchanged.
C19_NormalizerPreservesStructure ==
    norm.step >= 1 =>
        /\ StructurePreserved(norm.obj, norm.once)
        /\ norm.obj.type \notin {"dict", "list", "Decimal"} =>
              norm.once = norm.obj

\* C19 as amended: ... and every other scalar is returned unchanged, except
\* a NumPy floating-point NaN, which yields None.
C19_NormalizerPreservesStructureAmended ==
    norm.step >= 1 =>
        /\ StructurePreserved(norm.obj, norm.once)
        /\ norm.obj.type \notin {"dict", "list", "Decimal"} =>
              IF norm.obj = PyVal("numpy.float64", "nan")
              THEN norm.once = PyNoneValue
              ELSE norm.once = norm.obj

\* a record holding a Decimal, and then a Python float NaN, were normalised
C19_Witness ==
    /\ norm.step >= 1
    /\ norm.obj = PyVal("dict", <<Item(NormKey(1), PyVal("Decimal", "2")),
                                  Item(NormKey(2), PyVal("float", "nan"))>>)
    /\ norm.once = PyVal("dict", <<Item(NormKey(1), PyVal("float", "2.0")),
                                   Item(NormKey(2), PyVal("float", "nan"))>>)

\* the missing-value sentinels a decimal-typed column gives rise to: a
\* Decimal NaN, the NaN that astype(float) leaves for a missing value (line
\* 139), the None that line 142 leaves in place
DecimalColumnSentinels ==
    {PyVal("Decimal", "NaN"), PyVal("numpy.float64", "nan"), PyNoneValue}

\* C20: a missing/NaN sentinel that originates from a decimal-typed column
\* normalises to None, never to a floating-point NaN.
C20_DecimalSentinelBecomesNull ==
    (norm.step >= 1 /\ norm.obj \in DecimalColumnSentinels) =>
        /\ norm.once = PyNoneValue
        /\ ~(norm.once.type \in {"float", "numpy.float64"}
              /\ norm.once.val = "nan")

(***************************************************************************)
(* Properties of the tables held and returned (Spec).                      *)
(***************************************************************************)
\* a cell is a number, a string, a boolean or None, and no NaN
JsonSafe(cell) ==
    /\ cell.type \in {"int", "float", "numpy.float64", "str", "bool", "NoneType"}
    /\ ~(cell.type \in {"float", "numpy.float64"} /\ cell.val = "nan")

\* every cell of the table is JSON-safe and the normaliser leaves it alone
Normalized(df) ==
    \A c \in 1..Len(df.columns) : \A i \in 1..Len(df.columns[c].cells) :
        /\ JsonSafe(df.columns[c].cells[i])
        /\ convert_decimal_values(df.columns[c].cells[i]) = df.columns[c].cells[i]

\* C12: every table stored in the cache and every table returned by
\* get_from_cache_or_execute is normalised and JSON-safe: no Decimal and no
\* missing/NaN sentinel is left in it, and normalising it again changes
\* nothing.
C12_TablesAreNormalized ==
    /\ \A k \in DOMAIN CACHE : Normalized(CACHE[k].data)
    /\ (last.op = "get" /\ last.ret.kind = "DataFrame") => Normalized(last.ret)

(***************************************************************************)
(* Further properties of sequential callers (Spec).                        *)
(***************************************************************************)
\* this step is a call of get_from_cache_or_execute
GetStep == ops' = ops + 1 /\ last'.op = "get"

\* C13: when the warehouse rejects the query of a call, the call ran
\* execute_query exactly once (no retry) and fails with an exception whose
\* message carries the warehouse's message; it returns no table, partial or
\* empty, in its place.
C13_RejectedQueryFailsOnce ==
    [][(GetStep /\ last'.executed /\ jobs' \notin returned')
       => (/\ jobs' = jobs + 1
           /\ last'.ret.kind = "Exception"
           /\ last'.ret.message
                = "Query execution failed: 400 backend rejected the query"
           /\ last'.ret.columns = <<>>)]_vars

\* the first call of a behaviour was rejected by the warehouse
C13_Witness ==
    /\ ops = 1 /\ jobs = 1 /\ returned = {}
    /\ last.op = "get" /\ last.executed /\ last.age = -1
    /\ last.ret.kind = "Exception"
    /\ DOMAIN CACHE = {}

\* the key of the call this step makes
KeyOfStep == cache_key_of(last'.query, last'.params)

\* the call this step makes finds an entry under its key that is expired
FindsExpired ==
    /\ GetStep
    /\ KeyOfStep \in DOMAIN CACHE
    /\ now - CACHE[KeyOfStep].timestamp >= last'.ttl_minutes * SecondsPerMinute

\* C16: a call that finds an expired entry under its key runs execute_query;
\* afterwards the key holds a new entry, with the table of that job and the
\* time of the store as its timestamp, or, if execute_query raised, no entry
\* at all; the expired table is neither returned nor left in place.
C16_ExpiredEntryIsRemoved ==
    [][FindsExpired
       => (/\ last'.executed
           /\ jobs' = jobs + 1
           /\ last'.ret # CACHE[KeyOfStep].data
           /\ IF Raised(last'.ret)
              THEN KeyOfStep \notin DOMAIN CACHE'
              ELSE /\ KeyOfStep \in DOMAIN CACHE'
                   /\ CACHE'[KeyOfStep].data = last'.ret
                   /\ CACHE'[KeyOfStep].data.job = jobs'
                   /\ CACHE'[KeyOfStep].timestamp = now'
                   /\ CACHE'[KeyOfStep].data # CACHE[KeyOfStep].data)]_vars

\* a call with another ttl than the call before it found the entry expired
\* and stored a new one
C16_Witness ==
    /\ last.op = "get" /\ ~last.repeat
    /\ last.age >= last.ttl_minutes * SecondsPerMinute
    /\ last.executed /\ last.ret.kind = "DataFrame"
    /\ cache_key_of(last.query, last.params) \in DOMAIN CACHE
    /\ CACHE[cache_key_of(last.query, last.params)].timestamp = last.stored_at
    /\ last.ret.job = 2

\* C17: a hit does not run execute_query and leaves the cache as it is: the
\* entry is neither replaced nor is its timestamp refreshed, and the hit
\* happens less than ttl after the timestamp; a timestamp is only ever
\* written by a call that ran execute_query for that key.
C17_HitLeavesCacheUnchanged ==
    [][/\ (GetStep /\ ~last'.executed)
          => (/\ CACHE' = CACHE
              /\ jobs' = jobs
              /\ returned' = returned
              /\ KeyOfStep \in DOMAIN CACHE
              /\ last'.ret = CACHE[KeyOfStep].data
              /\ now - CACHE[KeyOfStep].timestamp
                    < last'.ttl_minutes * SecondsPerMinute)
       /\ \A k \in DOMAIN CACHE \cap DOMAIN CACHE' :
             CACHE'[k] # CACHE[k]
             => (GetStep /\ last'.executed /\ k = KeyOfStep)]_vars

\* an entry stored at time 0 was read twice, the second time later than the
\* first
C17_Witness ==
    /\ ops = 3 /\ jobs = 1
    /\ last.op = "get" /\ ~last.executed /\ last.age > 0
    /\ last.ret.kind = "DataFrame"
    /\ CACHE[cache_key_of(last.query, last.params)].timestamp = 0

\* C18: a call leaves the entries of all other keys as they are, whether it
\* hits, misses, finds its entry expired or fails; an entry only disappears
\* in clear_cache or in a call for its own key that found it expired.
C18_OtherKeysUntouched ==
    [][/\ GetStep
          => \A k \in (DOMAIN CACHE \cup DOMAIN CACHE') \ {KeyOfStep} :
                /\ k \in DOMAIN CACHE
                /\ k \in DOMAIN CACHE'
                /\ CACHE'[k] = CACHE[k]
       /\ \A k \in DOMAIN CACHE \ DOMAIN CACHE' :
             \/ ops' = ops + 1 /\ last'.op = "clear"
             \/ FindsExpired /\ k = KeyOfStep]_vars

\* with two keys in the cache, a call found the entry of its own key expired
\* and replaced it; the other entry is older
C18_Witness ==
    /\ ops = 3 /\ jobs = 3
    /\ Cardinality(DOMAIN CACHE) = 2
    /\ last.op = "get" /\ last.age >= 0 /\ last.executed
    /\ last.ret.kind = "DataFrame"
    /\ \E k \in DOMAIN CACHE :
          /\ k # cache_key_of(last.query, last.params)
          /\ CACHE[k].timestamp < last.stored_at

(***************************************************************************)
(* Further properties of concurrent callers (SpecThreads).                 *)
(***************************************************************************)
\* the next statement of a caller that is inside get_from_cache_or_execute
StatementOf(u) ==
    \/ L86(u)
    \/ L87(u)
    \/ L88(u)
    \/ L91(u)
    \/ L94(u)
    \/ \E backendOk \in BOOLEAN : L94Return(u, backendOk)
    \/ L95(u)

\* C15: no lock is held across execute_query: while one caller waits for
\* the warehouse, every statement of another caller that works on another
\* key can run, up to and including its return.
C15_NoLockAcrossCompute ==
    \A t \in Threads, u \in Threads :
        (/\ th[t].pc = "l94wait"
         /\ InGet(u)
         /\ th[u].cache_key # th[t].cache_key
         /\ (th[u].pc = "l94" => jobs < MaxExec))
        => ENABLED StatementOf(u)

\* a caller has entered, run execute_query and returned its table while the
\* execute_query of an earlier job of another caller is still in flight
C15_Witness ==
    \E t \in Threads, u \in Threads :
        /\ th[t].pc = "l94wait"
        /\ th[u].pc = "returned"
        /\ th[u].cache_key # th[t].cache_key
        /\ th[u].ret.kind = "DataFrame"
        /\ th[u].job > th[t].job
        /\ th[u].cache_key \in DOMAIN CACHE

(***************************************************************************)
(* Properties of the endpoints (SpecEndpoints).                            *)
(***************************************************************************)
\* two requests of one endpoint whose arguments differ in their values only:
\* each argument is given, or left out, in both
SameEndpointOtherValues ==
    /\ ops' = ops + 1
    /\ ep.endpoint # ""
    /\ ep'.endpoint = ep.endpoint
    /\ \A i \in 1..Len(ep.args) : ArgTruthy(ep'.args[i]) = ArgTruthy(ep.args[i])

\* C14: caller-supplied values reach the warehouse as bound parameters only:
\* two requests of an endpoint that differ only in the values of their
\* arguments pass the same query texts to get_from_cache_or_execute, for
\* every endpoint, get_quality_measures_summary with a measure_name included.
C14_ValuesAreBoundNeverInterpolated ==
    [][SameEndpointOtherValues
       => \A i \in 1..Len(ep.calls) :
             i <= Len(ep'.calls) => ep'.calls[i].query = ep.calls[i].query]_vars

(***************************************************************************)
(* Further properties of the parameter binder (SpecBind).                  *)
(***************************************************************************)
\* str(value) for the values of the inputs that are no bool, int, float or str
StringRepresentation(value) ==
    CASE value.type = "date" -> "2018-01-01"
      [] value.type = "NoneType" -> "None"

\* C21: the binder binds one parameter per entry of the mapping, under the
\* entry's own name, and for a value that is no bool, int, float or str it
\* binds the value's string representation, not the object, as STRING.
C21_OtherTypesBoundAsTheirString ==
    binder.bound =>
        LET items == binder.params.items
            bound == binder.query_parameters
        IN /\ Len(bound) = Len(items)
           /\ \A i \in 1..Len(items) :
                 /\ bound[i].name = items[i].name
                 /\ items[i].value.type \notin {"bool", "int", "float", "str"}
                    => /\ bound[i].type_ = "STRING"
                       /\ bound[i].value
                            = PyVal("str", StringRepresentation(items[i].value))

(***************************************************************************)
(* Freshness and the ttl of a call (Spec).                                 *)
(***************************************************************************)
\* C22: freshness is a strict comparison: a call that finds the entry of
\* its key exactly ttl old runs execute_query, a call with ttl 0 always runs
\* execute_query, and every hit happens at an age strictly below the ttl.
C22_FreshnessIsStrict ==
    [][GetStep
       => (/\ (/\ KeyOfStep \in DOMAIN CACHE
               /\ now - CACHE[KeyOfStep].timestamp
                    = last'.ttl_minutes * SecondsPerMinute)
              => (last'.executed /\ jobs' = jobs + 1)
           /\ last'.ttl_minutes = 0
              => (last'.executed /\ jobs' = jobs + 1)
           /\ ~last'.executed
              => now - CACHE[KeyOfStep].timestamp
                   < last'.ttl_minutes * SecondsPerMinute)]_vars

\* a call with ttl 1 found the entry exactly 60 seconds old and ran
\* execute_query
C22_Witness ==
    /\ last.op = "get" /\ last.ttl_minutes = 1
    /\ last.age = SecondsPerMinute
    /\ last.executed /\ last.ret.kind = "DataFrame"
    /\ last.ret.job = jobs /\ jobs >= 2

\* C23: the ttl is neither part of the key nor kept in the entry: a call
\* for the query and params of the call before it, whatever the ttl of
\* either, is served the stored table exactly when the entry is younger
\* than the ttl of this call, and otherwise replaces it.
C23_TtlOfTheReadingCallDecides ==
    [][/\ (/\ GetAfterGet
           /\ last'.query = last.query
           /\ last'.params = last.params
           /\ LastStored)
          => IF now - last.stored_at < last'.ttl_minutes * SecondsPerMinute
             THEN ~last'.executed /\ last'.ret = last.ret /\ CACHE' = CACHE
             ELSE last'.executed /\ last'.ret # last.ret
       /\ \A k \in DOMAIN CACHE' :
             DOMAIN CACHE'[k] = {"data", "timestamp"}]_vars

\* an entry stored by a call with another ttl was found expired, 60 or 90
\* seconds later, by a call with ttl 1 and replaced; a call with ttl 2 would
\* have been served it
C23_Witness ==
    /\ ops = 2 /\ jobs = 2
    /\ last.op = "get" /\ ~last.repeat
    /\ last.params = Dict(<<A1, B2>>)
    /\ last.ttl_minutes = 1
    /\ last.age >= SecondsPerMinute /\ last.age < 2 * SecondsPerMinute
    /\ last.executed /\ last.ret.kind = "DataFrame"

(***************************************************************************)
(* C24: GET /health                                                        *)
(***************************************************************************)

\* the step is the handling of one GET /health request
HealthStep ==
    ops' = ops + 1 /\ http'.request = ops' /\ http'.route = "/health"

\* C24: the health check tests the warehouse connection: after any earlier
\* /health and analytics requests, a GET /health that answers "healthy"
\* with bigquery_connection "ok" has run a warehouse query successfully
\* while it was handled, and one handled while the warehouse is
\* unreachable answers 503.
C24_HealthCheckTestsTheWarehouse ==
    [][HealthStep =>
         /\ (http'.status = "healthy" /\ http'.bigquery_connection = "ok")
               => /\ ep'.executed >= 1
                  /\ jobs' = jobs + 1
                  /\ jobs' \in returned'
         /\ ~http'.warehouse_up => http'.status_code = 503]_vars

\* a health check answered from a table cached by an earlier request: no
\* query ran, the warehouse was unreachable, and the answer is "healthy"
C24_HealthyWithoutAQuery ==
    /\ http.request = ops /\ http.route = "/health"
    /\ http.status = "healthy" /\ http.bigquery_connection = "ok"
    /\ ep.executed = 0 /\ ~http.warehouse_up

====
